---- MODULE Spec2Model ----
(***************************************************************************)
(* Model of main/helpers.py: the fuzzy matcher (filter_animes), the source *)
(* resolver (get_sources), the retried streaming download                  *)
(* (download_source), the catalog client (get_animes, get_anime_details)   *)
(* and the interactive selector (select_anime_slug).                       *)
(***************************************************************************)
EXTENDS Integers, Sequences, FiniteSets, TLC

(* ---------------------------------------------------------------------- *)
(* Bounds of the model                                                     *)
(* ---------------------------------------------------------------------- *)
\* Largest catalog handed to filter_animes.
MaxAnimes == 2
\* Number of distinct title strings; string s sorts before string t iff s < t.
NStr == 2
\* Scores of fuzz.token_set_ratio are abstracted to 0..MaxScore.
MaxScore == 2
\* Largest number of raw sources in the response of the sources endpoint.
MaxSources == 2
\* Largest total number of characters of the decrypted paths of one response.
MaxChars == 3
\* Largest number of attempts of download_source that are followed (the retry
\* policy itself sets no limit).
MaxAttempts == 3
\* Largest number of bytes of the body of the source.
MaxBody == 2
\* Largest number of bytes of one chunk of response.iter_bytes().
MaxChunk == 2

(* ---------------------------------------------------------------------- *)
(* Constants of the program                                                *)
(* ---------------------------------------------------------------------- *)
\* wait_fixed(2)
WaitFixed == 2
\* wait_random(1, 10)
WaitRandomMin == 1
WaitRandomMax == 10

(* ---------------------------------------------------------------------- *)
(* State                                                                   *)
(* ---------------------------------------------------------------------- *)
VARIABLES
    fpc,        \* filter_animes: "input" before the call, "done" after it
    animes,     \* the catalog passed to filter_animes
    ratio,      \* fuzz.token_set_ratio(search.lower(), s) for each lowercased s
    threshold,  \* the threshold argument
    limit,      \* the limit argument
    ranked,     \* the sorted and truncated (score, anime) pairs
    result,     \* the list filter_animes returns
    gs,         \* the call of get_sources, a record:
                \*   pc         position of the call
                \*   requests   the requests sent to the service, in order
                \*   ongoing    anime_details.ongoing
                \*   rawsources the raw source list the service answered with
                \*   sources    the list `sources`, rewritten in place
                \*   idx        position of the for loop in `sources`
                \*   ret        the returned list
                \*   exc        the exception raised to the caller
    dl,         \* the call of download_source, a record:
                \*   pc        position of the call
                \*   body      the bytes of the source
                \*   file      the bytes of the destination file
                \*   attempts  the number of attempts started
                \*   outcomes  how each finished attempt ended: "ok" or the
                \*             exception it raised
                \*   total     <<n>> once int(Content-Length) is read
                \*   received  the number of bytes of the body received
                \*   progress  the counter of the progress bar
                \*   events    the attempts, failure logs and sleeps, in order
                \*   delay     the length of the current backoff sleep
                \*   exc       the exception raised to the caller
                \*   before    the bytes of the destination file when the
                \*             current attempt started
    cc,         \* the call of get_animes or get_anime_details, a record:
                \*   pc        position of the call
                \*   catalog   the catalog the service holds
                \*   op        the operation called
                \*   anime     the argument of get_anime_details
                \*   requests  the requests sent to the service, in order
                \*   ret       the returned value
                \*   exc       the exception raised to the caller
    ss          \* the call of select_anime_slug, a record:
                \*   pc        position of the call
                \*   slug      the slug argument
                \*   prompts   the number of calls of prompt(questions)
                \*   asked     the questions put to the user, in order
                \*   fetches   the number of calls of get_animes
                \*   answers   the answers collected by the prompt
                \*   choices   the list get_choices returned
                \*   ret       the returned slug
                \*   exc       the exception raised to the caller

fvars == <<fpc, animes, ratio, threshold, limit, ranked, result>>
vars == <<fvars, gs, dl, cc, ss>>

(* ---------------------------------------------------------------------- *)
(* Python built-ins used by helpers.py                                     *)
(* ---------------------------------------------------------------------- *)
\* Titles are lower-case strings, which str.lower() leaves as they are.
Strings == 1..NStr
Scores == 0..MaxScore

\* Mutant of DictSet: every assignment adds an item, as a list of pairs would.
DictSet_Append(d, k, v) == Append(d, <<k, v>>)

\* dict[k] = v on an insertion-ordered dict, kept as a sequence of <<k, v>>:
\* an existing key keeps its position and takes the new value.
DictSet(d, k, v) ==
    IF \E i \in 1..Len(d) : d[i][1] = k
    THEN [i \in 1..Len(d) |-> IF d[i][1] = k THEN <<k, v>> ELSE d[i]]
    ELSE Append(d, <<k, v>>)

\* dict(pairs)
RECURSIVE DictFrom(_, _)
DictFrom(d, pairs) ==
    IF pairs = <<>> THEN d
    ELSE DictFrom(DictSet(d, pairs[1][1], pairs[1][2]), Tail(pairs))

DictOf(pairs) == DictFrom(<<>>, pairs)

DictValues(d) == [i \in 1..Len(d) |-> d[i][2]]

\* k in d
DictHas(d, k) == \E i \in 1..Len(d) : d[i][1] = k

\* d[k], for a key of d
DictGet(d, k) == d[CHOOSE i \in 1..Len(d) : d[i][1] = k][2]

\* sorted(seq, key=lambda x: x[0]): stable, ascending in the first component.
InsertAsc(sorted, x) ==
    LET n == Cardinality({i \in 1..Len(sorted) : sorted[i][1] <= x[1]})
    IN  SubSeq(sorted, 1, n) \o <<x>> \o SubSeq(sorted, n + 1, Len(sorted))

RECURSIVE SortAscFrom(_, _)
SortAscFrom(sorted, seq) ==
    IF seq = <<>> THEN sorted
    ELSE SortAscFrom(InsertAsc(sorted, seq[1]), Tail(seq))

SortedAsc(seq) == SortAscFrom(<<>>, seq)

\* sorted(seq, key=lambda x: x[0], reverse=True): descending in the first
\* component, equal elements keep their original order.
InsertDesc(sorted, x) ==
    LET n == Cardinality({i \in 1..Len(sorted) : sorted[i][1] >= x[1]})
    IN  SubSeq(sorted, 1, n) \o <<x>> \o SubSeq(sorted, n + 1, Len(sorted))

RECURSIVE SortDescFrom(_, _)
SortDescFrom(sorted, seq) ==
    IF seq = <<>> THEN sorted
    ELSE SortDescFrom(InsertDesc(sorted, seq[1]), Tail(seq))

\* Mutant of SortedDesc: the reverse=True argument is forgotten.
SortedDesc_NoReverse(seq) == SortedAsc(seq)

SortedDesc(seq) == SortDescFrom(<<>>, seq)

\* seq[:n]
Slice(seq, n) ==
    IF n >= 0
    THEN SubSeq(seq, 1, IF n < Len(seq) THEN n ELSE Len(seq))
    ELSE SubSeq(seq, 1, IF Len(seq) + n > 0 THEN Len(seq) + n ELSE 0)

(* ---------------------------------------------------------------------- *)
(* filter_animes                                                           *)
(* ---------------------------------------------------------------------- *)
\* An Anime: alt_title 0 is the falsy alternate title (None or "").
Anime == [id : 1..MaxAnimes, title : Strings, alt_title : 0..NStr]

\* Catalogs: identifiers are unique, and the code only compares them for
\* equality, so the k-th entry of the list carries identifier k.
Catalogs ==
    UNION {{c \in [1..n -> Anime] : \A i \in 1..n : c[i].id = i} : n \in 0..MaxAnimes}

\* fuzz.token_set_ratio(search.lower(), s.lower()) for the search of the call
token_set_ratio(s) == ratio[s]

animes_by_title(as) ==
    DictOf(SortedAsc([i \in 1..Len(as) |-> <<as[i].title, as[i]>>]))

HasAltTitle(a) == a.alt_title # 0

\* (... for anime in animes if anime.alt_title)
RECURSIVE WithAltTitle(_)
WithAltTitle(as) ==
    IF as = <<>> THEN <<>>
    ELSE (IF HasAltTitle(as[1]) THEN <<as[1]>> ELSE <<>>) \o WithAltTitle(Tail(as))

animes_by_alt_title(as) ==
    LET withAlt == WithAltTitle(as)
    IN  DictOf(SortedAsc([i \in 1..Len(withAlt) |-> <<withAlt[i].alt_title, withAlt[i]>>]))

\* The loop over animes_by_title.values(), lines 92-95.
RECURSIVE SelectByTitle(_, _, _)
SelectByTitle(sel, as, thr) ==
    IF as = <<>> THEN sel
    ELSE LET anime == as[1]
             score == token_set_ratio(anime.title)
         IN  SelectByTitle(IF score > thr
                           THEN DictSet(sel, anime.id, <<score, anime>>)
                           ELSE sel,
                           Tail(as), thr)

\* The loop over animes_by_alt_title.values(), lines 96-99.
RECURSIVE SelectByAltTitle(_, _, _)
SelectByAltTitle(sel, as, thr) ==
    IF as = <<>> THEN sel
    ELSE LET anime == as[1]
             score == token_set_ratio(anime.alt_title)
         IN  SelectByAltTitle(IF score > thr
                              THEN DictSet(sel, anime.id, <<score, anime>>)
                              ELSE sel,
                              Tail(as), thr)

selected_animes_with_score_by_id(as, thr) ==
    SelectByAltTitle(
        SelectByTitle(<<>>, DictValues(animes_by_title(as)), thr),
        DictValues(animes_by_alt_title(as)), thr)

\* sorted(selected.values(), key=score, reverse=True)
SortedSelection(as, thr) ==
    SortedDesc(DictValues(selected_animes_with_score_by_id(as, thr)))

\* sorted(...)[:limit], before the projection on the anime.
RankedAnimes(as, thr, lim) == Slice(SortedSelection(as, thr), lim)

\* list(x[1] for x in ...)
Animes(r) == [i \in 1..Len(r) |-> r[i][2]]

filter_animes(as, thr, lim) == Animes(RankedAnimes(as, thr, lim))

\* get_sources while it is not being called.
SourcesIdle == [pc |-> "idle"]

\* download_source while it is not being called.
DownloadIdle == [pc |-> "idle"]

\* get_animes and get_anime_details while they are not being called.
CatalogIdle == [pc |-> "idle"]

\* select_anime_slug while it is not being called.
SelectIdle == [pc |-> "idle"]

\* Before the call: a catalog, and the scores fuzz.token_set_ratio gives for
\* the search string.
InitFilter ==
    /\ gs = SourcesIdle
    /\ dl = DownloadIdle
    /\ cc = CatalogIdle
    /\ ss = SelectIdle
    /\ fpc = "input"
    /\ animes \in Catalogs
    /\ ratio \in [Strings -> Scores]
    /\ threshold = 0
    /\ limit = 0
    /\ ranked = <<>>
    /\ result = <<>>

\* filter_animes(search, animes, threshold, limit)
CallFilter ==
    /\ fpc = "input"
    /\ fpc' = "done"
    /\ \E thr \in 0..(MaxScore - 1), lim \in 0..MaxAnimes :
          /\ threshold' = thr
          /\ limit' = lim
          /\ ranked' = RankedAnimes(animes, thr, lim)
    /\ result' = Animes(ranked')
    /\ UNCHANGED <<animes, ratio>>
    /\ UNCHANGED <<gs, dl, cc, ss>>

NextFilter == CallFilter

SpecFilter == InitFilter /\ [][NextFilter]_vars

(* ---------------------------------------------------------------------- *)
(* Properties of filter_animes                                             *)
(* ---------------------------------------------------------------------- *)
Max2(a, b) == IF a >= b THEN a ELSE b

TitleScore(a) == token_set_ratio(a.title)
AltScore(a) == token_set_ratio(a.alt_title)

MatchesTitle(a) == TitleScore(a) > threshold
MatchesAlt(a) == HasAltTitle(a) /\ AltScore(a) > threshold
Qualifies(a) == MatchesTitle(a) \/ MatchesAlt(a)

Entries == {animes[i] : i \in 1..Len(animes)}
ResultIds == {result[i].id : i \in 1..Len(result)}

\* C1: every returned entry whose title score and alternate-title score both
\* exceed the threshold is ranked by the maximum of the two scores.
C1_RankedByMaxScore ==
    fpc = "done" =>
        \A i \in 1..Len(ranked) :
            LET a == ranked[i][2]
            IN  (MatchesTitle(a) /\ MatchesAlt(a)) =>
                    ranked[i][1] = Max2(TitleScore(a), AltScore(a))

\* C2: with a limit of at least the catalog size, the returned entries are
\* exactly the entries whose title score or alternate-title score strictly
\* exceeds the threshold.
C2_ExactlyTheQualifying ==
    (fpc = "done" /\ limit >= Len(animes)) =>
        ResultIds = {a.id : a \in {e \in Entries : Qualifies(e)}}

C4_TiesInTitleOrder ==
    fpc = "done" =>
        \A i, j \in 1..Len(ranked) :
            (i < j /\ ranked[i][1] = ranked[j][1]) =>
                ranked[i][2].title <= ranked[j][2].title

\* C5: no two returned entries have the same identifier.
C5_NoDuplicateIds ==
    fpc = "done" =>
        \A i, j \in 1..Len(result) : result[i].id = result[j].id => i = j

\* An entry matching on both its title and its alternate title is returned
\* together with another entry.
C5_Witness ==
    /\ fpc = "done"
    /\ Len(result) = 2
    /\ \E i \in 1..Len(result) : MatchesTitle(result[i]) /\ MatchesAlt(result[i])

(* ---------------------------------------------------------------------- *)
(* urllib.parse.urljoin and str.replace, on strings kept as sequences of   *)
(* characters                                                              *)
(* ---------------------------------------------------------------------- *)
\* The characters a decrypted path is made of: a letter, a space, and the
\* characters urljoin gives a meaning to.
Chars == {"a", " ", "/", ".", ":"}

\* The two base domains: scheme https, a host, an empty path.
FILES_URL == <<"https", ":", "/", "/", "files-host">>
ONGOING_FILES_URL == <<"https", ":", "/", "/", "ongoing-files-host">>

\* str.replace(" ", "%20"); "%20" is kept as one item.
ReplaceSpaces(s) == [i \in 1..Len(s) |-> IF s[i] = " " THEN "%20" ELSE s[i]]

\* str.find(c, start): the first position >= start holding c, 0 when none.
Find(s, c, start) ==
    LET hits == {i \in start..Len(s) : s[i] = c}
    IN  IF hits = {} THEN 0 ELSE CHOOSE i \in hits : \A j \in hits : i <= j

\* str.split("/")
RECURSIVE SplitSlash(_)
SplitSlash(s) ==
    LET i == Find(s, "/", 1)
    IN  IF i = 0 THEN <<s>>
        ELSE <<SubSeq(s, 1, i - 1)>> \o SplitSlash(SubSeq(s, i + 1, Len(s)))

\* "/".join(segments)
RECURSIVE JoinSlash(_)
JoinSlash(segs) ==
    IF segs = <<>> THEN <<>>
    ELSE IF Len(segs) = 1 THEN segs[1]
    ELSE segs[1] \o <<"/">> \o JoinSlash(Tail(segs))

IsAlpha(c) == c \in {"a", "https"}
scheme_chars == {"a", "https", "."}
uses_relative == {<<>>, <<"https">>}
uses_netloc == {<<>>, <<"https">>}

\* urlparse(url, scheme): the scheme, the network location and the path.
urlparse(url, scheme) ==
    LET i == Find(url, ":", 1)
        hasScheme == /\ i > 1
                     /\ IsAlpha(url[1])
                     /\ \A k \in 1..(i - 1) : url[k] \in scheme_chars
        rest == IF hasScheme THEN SubSeq(url, i + 1, Len(url)) ELSE url
        hasNetloc == Len(rest) >= 2 /\ rest[1] = "/" /\ rest[2] = "/"
        slash == Find(rest, "/", 3)
        delim == IF slash = 0 THEN Len(rest) + 1 ELSE slash
    IN  [scheme |-> IF hasScheme THEN SubSeq(url, 1, i - 1) ELSE scheme,
         netloc |-> IF hasNetloc THEN SubSeq(rest, 3, delim - 1) ELSE <<>>,
         path   |-> IF hasNetloc THEN SubSeq(rest, delim, Len(rest)) ELSE rest]

urlunparse(scheme, netloc, path) ==
    LET doubleSlash == Len(path) >= 2 /\ path[1] = "/" /\ path[2] = "/"
        url == IF netloc # <<>> \/ (scheme # <<>> /\ scheme \in uses_netloc /\ ~doubleSlash)
               THEN <<"/", "/">> \o netloc \o
                    (IF path # <<>> /\ path[1] # "/" THEN <<"/">> \o path ELSE path)
               ELSE path
    IN  IF scheme # <<>> THEN scheme \o <<":">> \o url ELSE url

\* filter(None, segments)
RECURSIVE NonEmpty(_)
NonEmpty(segs) ==
    IF segs = <<>> THEN <<>>
    ELSE (IF segs[1] # <<>> THEN <<segs[1]>> ELSE <<>>) \o NonEmpty(Tail(segs))

\* The loop of urljoin over the segments: ".." drops the last resolved
\* segment, "." is skipped.
RECURSIVE ResolveSegments(_, _)
ResolveSegments(resolved, segs) ==
    IF segs = <<>> THEN resolved
    ELSE IF segs[1] = <<".", ".">>
         THEN ResolveSegments(IF resolved = <<>> THEN resolved
                              ELSE SubSeq(resolved, 1, Len(resolved) - 1),
                              Tail(segs))
    ELSE IF segs[1] = <<".">> THEN ResolveSegments(resolved, Tail(segs))
    ELSE ResolveSegments(Append(resolved, segs[1]), Tail(segs))

urljoin(base, url) ==
    IF base = <<>> THEN url
    ELSE IF url = <<>> THEN base
    ELSE
    LET b == urlparse(base, <<>>)
        u == urlparse(url, b.scheme)
    IN  IF u.scheme # b.scheme \/ u.scheme \notin uses_relative THEN url
        ELSE IF u.scheme \in uses_netloc /\ u.netloc # <<>>
        THEN urlunparse(u.scheme, u.netloc, u.path)
        ELSE
        LET netloc == IF u.scheme \in uses_netloc THEN b.netloc ELSE u.netloc
        IN  IF u.path = <<>> THEN urlunparse(u.scheme, netloc, b.path)
            ELSE
            LET bparts == SplitSlash(b.path)
                base_parts == IF bparts[Len(bparts)] # <<>>
                              THEN SubSeq(bparts, 1, Len(bparts) - 1)
                              ELSE bparts
                joined == base_parts \o SplitSlash(u.path)
                segments == IF u.path[1] = "/" THEN SplitSlash(u.path)
                            ELSE IF Len(joined) < 2 THEN joined
                            ELSE <<joined[1]>>
                                 \o NonEmpty(SubSeq(joined, 2, Len(joined) - 1))
                                 \o <<joined[Len(joined)]>>
                last == segments[Len(segments)]
                resolved == ResolveSegments(<<>>, segments)
                            \o (IF last \in {<<".">>, <<".", ".">>} THEN <<<<>>>> ELSE <<>>)
                path == JoinSlash(resolved)
            IN  urlunparse(u.scheme, netloc, IF path = <<>> THEN <<"/">> ELSE path)

(* ---------------------------------------------------------------------- *)
(* get_sources                                                             *)
(* ---------------------------------------------------------------------- *)
\* A raw source is an encrypted string; it is kept as what decrypt(...) and
\* .decode("utf-8") make of it: the decrypted path, or Malformed when they
\* raise.
Malformed == <<"malformed">>

\* The decrypted paths of k characters.
RECURSIVE Paths(_)
Paths(k) ==
    IF k = 0 THEN {<<>>} ELSE {Append(p, c) : p \in Paths(k - 1), c \in Chars}

\* The responses of the sources endpoint: at most n raw sources whose
\* decrypted paths have at most budget characters in total.
RECURSIVE RawSourceLists(_, _)
RawSourceLists(n, budget) ==
    IF n = 0 THEN {<<>>}
    ELSE {<<>>}
         \cup {<<[source |-> Malformed]>> \o rest : rest \in RawSourceLists(n - 1, budget)}
         \cup UNION {LET rests == RawSourceLists(n - 1, budget - k)
                     IN  {<<[source |-> p]>> \o rest : p \in Paths(k), rest \in rests}
                     : k \in 0..budget}

\* decrypt(source.source.encode("utf-8"), key).decode("utf-8")
DecryptFails(source) == source.source = Malformed
Decrypted(source) == source.source

Domain(isOngoing) == IF isOngoing THEN ONGOING_FILES_URL ELSE FILES_URL

\* The value line 65 assigns to source.source.
ResolvedSource(domain, source) ==
    [source |-> urljoin(domain, ReplaceSpaces(Decrypted(source)))]

InitSources ==
    /\ fpc = "idle"
    /\ animes = <<>>
    /\ ratio = <<>>
    /\ threshold = 0
    /\ limit = 0
    /\ ranked = <<>>
    /\ result = <<>>
    /\ gs = [pc |-> "start", requests |-> <<>>, ongoing |-> FALSE,
             rawsources |-> <<>>, sources |-> <<>>, idx |-> 0, ret |-> <<>>,
             exc |-> "none"]
    /\ dl = DownloadIdle
    /\ cc = CatalogIdle
    /\ ss = SelectIdle

\* get_anime_details(anime) answers.
GetAnimeDetails ==
    /\ gs.pc = "start"
    /\ \E o \in BOOLEAN :
          gs' = [gs EXCEPT !.requests = Append(@, "details"),
                           !.ongoing = o,
                           !.pc = "details"]
    /\ UNCHANGED <<fvars, dl, cc, ss>>

\* Mutant of GetAnimeDetailsFails: the failure is kept aside and get_sources
\* goes on.
GetAnimeDetailsFails_Swallowed ==
    /\ gs.pc = "start"
    /\ \E e \in {"HTTPStatusError", "TransportError"} :
          gs' = [gs EXCEPT !.requests = Append(@, "details"),
                           !.exc = e,
                           !.pc = "details"]
    /\ UNCHANGED <<fvars, dl, cc, ss>>

\* get_anime_details(anime) raises: r.raise_for_status() or the transport.
GetAnimeDetailsFails ==
    /\ gs.pc = "start"
    /\ \E e \in {"HTTPStatusError", "TransportError"} :
          gs' = [gs EXCEPT !.requests = Append(@, "details"),
                           !.exc = e,
                           !.pc = "raised"]
    /\ UNCHANGED <<fvars, dl, cc, ss>>

\* client.get(.../sources) answers, the list is parsed and the domain chosen.
RequestSources ==
    /\ gs.pc = "details"
    /\ \E r \in RawSourceLists(MaxSources, MaxChars) :
          gs' = [gs EXCEPT !.requests = Append(@, "sources"),
                           !.rawsources = r,
                           !.sources = r,
                           !.idx = 1,
                           !.pc = "loop"]
    /\ UNCHANGED <<fvars, dl, cc, ss>>

\* client.get(.../sources) raises: r.raise_for_status() or the transport.
RequestSourcesFails ==
    /\ gs.pc = "details"
    /\ \E e \in {"HTTPStatusError", "TransportError"} :
          gs' = [gs EXCEPT !.requests = Append(@, "sources"),
                           !.exc = e,
                           !.pc = "raised"]
    /\ UNCHANGED <<fvars, dl, cc, ss>>

\* One iteration of the for loop: the source is decrypted and rewritten in
\* place.
ResolveNextSource ==
    /\ gs.pc = "loop"
    /\ gs.idx <= Len(gs.sources)
    /\ ~DecryptFails(gs.sources[gs.idx])
    /\ gs' = [gs EXCEPT !.sources[gs.idx] = ResolvedSource(Domain(gs.ongoing), @),
                        !.idx = @ + 1]
    /\ UNCHANGED <<fvars, dl, cc, ss>>

\* One iteration of the for loop in which decrypt(...) or .decode("utf-8")
\* raises: nothing catches the exception, it leaves get_sources.
DecryptRaises ==
    /\ gs.pc = "loop"
    /\ gs.idx <= Len(gs.sources)
    /\ DecryptFails(gs.sources[gs.idx])
    /\ gs' = [gs EXCEPT !.exc = "DecryptionError", !.pc = "raised"]
    /\ UNCHANGED <<fvars, dl, cc, ss>>

\* Mutant of ReturnSources: the list is returned last source first.
ReturnSources_Reversed ==
    /\ gs.pc = "loop"
    /\ gs.idx > Len(gs.sources)
    /\ gs' = [gs EXCEPT !.ret = [i \in 1..Len(gs.sources) |->
                                    gs.sources[Len(gs.sources) + 1 - i]],
                        !.pc = "returned"]
    /\ UNCHANGED <<fvars, dl, cc, ss>>

\* return sources
ReturnSources ==
    /\ gs.pc = "loop"
    /\ gs.idx > Len(gs.sources)
    /\ gs' = [gs EXCEPT !.ret = gs.sources, !.pc = "returned"]
    /\ UNCHANGED <<fvars, dl, cc, ss>>

NextSources ==
    \/ GetAnimeDetails
    \/ GetAnimeDetailsFails
    \/ RequestSources
    \/ RequestSourcesFails
    \/ ResolveNextSource
    \/ DecryptRaises
    \/ ReturnSources

SpecSources == InitSources /\ [][NextSources]_vars

(* ---------------------------------------------------------------------- *)
(* Properties of get_sources                                               *)
(* ---------------------------------------------------------------------- *)
StartsWith(s, prefix) ==
    Len(s) >= Len(prefix) /\ SubSeq(s, 1, Len(prefix)) = prefix

\* C6: every returned source URL starts with the base domain chosen by
\* anime_details.ongoing, and not with the other one.
C6_StartsWithChosenDomain ==
    gs.pc = "returned" =>
        \A i \in 1..Len(gs.ret) :
            /\ StartsWith(gs.ret[i].source, Domain(gs.ongoing))
            /\ ~StartsWith(gs.ret[i].source, Domain(~gs.ongoing))

\* C7: every returned source URL is the base domain followed by the
\* decrypted path in which each space is written %20 and nothing else is
\* changed (with or without the "/" that separates the two).
C7_OnlySpacesRewritten ==
    gs.pc = "returned" =>
        \A i \in 1..Len(gs.ret) :
            LET path == ReplaceSpaces(Decrypted(gs.rawsources[i]))
            IN  gs.ret[i].source \in {Domain(gs.ongoing) \o path,
                                      Domain(gs.ongoing) \o <<"/">> \o path}

\* The raw sources of the response that decrypt.
RECURSIVE Decryptable(_)
Decryptable(raws) ==
    IF raws = <<>> THEN <<>>
    ELSE (IF DecryptFails(raws[1]) THEN <<>> ELSE <<raws[1]>>) \o Decryptable(Tail(raws))

\* C8: when a raw source of a response with several sources fails to
\* decrypt, get_sources still returns, with the resolved form of every other
\* source.
C8_DecryptFailureSkipsTheSource ==
    (/\ gs.pc \in {"returned", "raised"}
     /\ Len(gs.rawsources) >= 2
     /\ \E i \in 1..Len(gs.rawsources) : DecryptFails(gs.rawsources[i])) =>
        /\ gs.pc = "returned"
        /\ gs.ret = [i \in 1..Len(Decryptable(gs.rawsources)) |->
                        ResolvedSource(Domain(gs.ongoing), Decryptable(gs.rawsources)[i])]

\* C17: when every raw source decrypts, get_sources returns as many sources
\* as the service listed, the i-th of them being the resolved form of the
\* i-th raw source.
C17_OrderPreserved ==
    gs.pc = "returned" =>
        /\ Len(gs.ret) = Len(gs.rawsources)
        /\ \A i \in 1..Len(gs.rawsources) :
              /\ ~DecryptFails(gs.rawsources[i])
              /\ gs.ret[i] = ResolvedSource(Domain(gs.ongoing), gs.rawsources[i])

\* Two raw sources that resolve to different URLs are returned.
C17_Witness ==
    /\ gs.pc = "returned"
    /\ Len(gs.rawsources) = 2
    /\ Len(gs.ret) = 2
    /\ gs.ret[1] # gs.ret[2]

\* C19: the detail record is requested first and the sources list after it;
\* when the detail request fails, its error reaches the caller, the sources
\* endpoint is not requested and no source is decrypted.
C19_DetailsBeforeSources ==
    /\ gs.requests \in {<<>>, <<"details">>, <<"details", "sources">>}
    /\ gs.exc # "none" => gs.pc = "raised"
    /\ (gs.pc = "raised" /\ gs.requests = <<"details">>) =>
          /\ gs.exc \in {"HTTPStatusError", "TransportError"}
          /\ gs.rawsources = <<>>
          /\ gs.sources = <<>>
          /\ gs.idx = 0
          /\ gs.ret = <<>>
    /\ gs.idx > 0 => gs.requests = <<"details", "sources">>

\* The detail request is answered with an error status.
C19_Witness ==
    /\ gs.pc = "raised"
    /\ gs.requests = <<"details">>
    /\ gs.exc = "HTTPStatusError"

(* ---------------------------------------------------------------------- *)
(* download_source                                                         *)
(* ---------------------------------------------------------------------- *)
\* The exceptions the request and the stream raise.
TransportFailures == {"TimeoutException", "NetworkError", "TransportError"}

\* Mutant of RetryOn: the policy retries on any exception.
RetryOn_AnyException(e) == TRUE

\* Mutant of RetryOn: the policy gives up on a timeout.
RetryOn_NoTimeout(e) == e \in {"NetworkError", "TransportError", "HTTPStatusError"}

\* retry=retry_if_exception_type(...) | ...
RetryOn(e) ==
    e \in {"TimeoutException", "NetworkError", "TransportError", "HTTPStatusError"}

\* Mutant of Waits: the fixed part of the wait is left out.
Waits_NoFixed == WaitRandomMin..WaitRandomMax

\* wait=wait_fixed(2) + wait_random(1, 10), in whole seconds
Waits == {WaitFixed + r : r \in WaitRandomMin..WaitRandomMax}

\* Mutant of OpenedForWriting: the file is opened in mode "ab".
OpenedForWriting_Append(file) == file

\* filepath.open("wb"): the content of the file once opened.
OpenedForWriting(file) == <<>>

\* The bodies of the source: n bytes, all different.
Bodies == {[i \in 1..n |-> i] : n \in 0..MaxBody}

\* The destination file before the call: missing or empty, or holding a byte
\* that is no byte of the body.
OldFiles == {<<>>, <<0>>}

InitDownload ==
    /\ fpc = "idle"
    /\ animes = <<>>
    /\ ratio = <<>>
    /\ threshold = 0
    /\ limit = 0
    /\ ranked = <<>>
    /\ result = <<>>
    /\ gs = SourcesIdle
    /\ cc = CatalogIdle
    /\ ss = SelectIdle
    /\ \E b \in Bodies, f \in OldFiles :
          dl = [pc |-> "call", body |-> b, file |-> f, attempts |-> 0,
                outcomes |-> <<>>, total |-> <<>>, received |-> 0, progress |-> 0,
                events |-> <<>>, delay |-> 0, exc |-> "none", before |-> f]

\* The attempt raises e: tenacity logs and sleeps when the policy retries on
\* e, and lets e reach the caller otherwise.
Raises(e) ==
    IF RetryOn(e)
    THEN \E w \in Waits :
            dl' = [dl EXCEPT !.outcomes = Append(@, e),
                             !.events = @ \o <<"log", "sleep">>,
                             !.delay = w,
                             !.pc = "sleeping"]
    ELSE dl' = [dl EXCEPT !.outcomes = Append(@, e),
                          !.exc = e,
                          !.pc = "failed"]

\* Mutant of StartAttempt: the destination file is opened, and so emptied,
\* before the request is sent.
StartAttempt_OpensFirst ==
    /\ dl.pc \in {"call", "sleeping"}
    /\ dl.attempts < MaxAttempts
    /\ dl' = [dl EXCEPT !.attempts = @ + 1,
                        !.before = dl.file,
                        !.file = OpenedForWriting(@),
                        !.events = Append(@, "attempt"),
                        !.total = <<>>,
                        !.received = 0,
                        !.progress = 0,
                        !.delay = 0,
                        !.pc = "request"]
    /\ UNCHANGED <<fvars, gs, cc, ss>>

\* The first attempt, or the next one once the sleep is over.
StartAttempt ==
    /\ dl.pc \in {"call", "sleeping"}
    /\ dl.attempts < MaxAttempts
    /\ dl' = [dl EXCEPT !.attempts = @ + 1,
                        !.before = dl.file,
                        !.events = Append(@, "attempt"),
                        !.total = <<>>,
                        !.received = 0,
                        !.progress = 0,
                        !.delay = 0,
                        !.pc = "request"]
    /\ UNCHANGED <<fvars, gs, cc, ss>>

\* new_client.stream("GET", ...) raises before a response is there.
RequestFails ==
    /\ dl.pc = "request"
    /\ \E e \in TransportFailures : Raises(e)
    /\ UNCHANGED <<fvars, gs, cc, ss>>

\* response.raise_for_status() raises.
ResponseErrorStatus ==
    /\ dl.pc = "request"
    /\ Raises("HTTPStatusError")
    /\ UNCHANGED <<fvars, gs, cc, ss>>

\* The response has no Content-Length: int(None) raises.
ResponseWithoutLength ==
    /\ dl.pc = "request"
    /\ Raises("TypeError")
    /\ UNCHANGED <<fvars, gs, cc, ss>>

\* The status is fine and the length is read: the response is ready.
ResponseReady ==
    /\ dl.pc = "request"
    /\ dl' = [dl EXCEPT !.total = <<Len(dl.body)>>, !.pc = "response"]
    /\ UNCHANGED <<fvars, gs, cc, ss>>

\* filepath.open("wb") raises.
OpenFails ==
    /\ dl.pc = "response"
    /\ Raises("OSError")
    /\ UNCHANGED <<fvars, gs, cc, ss>>

\* filepath.open("wb") and tqdm(total=total)
OpenFile ==
    /\ dl.pc = "response"
    /\ dl' = [dl EXCEPT !.file = OpenedForWriting(@), !.pc = "streaming"]
    /\ UNCHANGED <<fvars, gs, cc, ss>>

\* One iteration of the loop over response.iter_bytes().
WriteChunk ==
    /\ dl.pc = "streaming"
    /\ \E k \in 1..MaxChunk :
          /\ dl.received + k <= Len(dl.body)
          /\ dl' = [dl EXCEPT
                       !.file = @ \o SubSeq(dl.body, dl.received + 1, dl.received + k),
                       !.progress = @ + ((dl.received + k) - dl.received),
                       !.received = @ + k]
    /\ UNCHANGED <<fvars, gs, cc, ss>>

\* response.iter_bytes() raises before the end of the body.
StreamFails ==
    /\ dl.pc = "streaming"
    /\ dl.received < Len(dl.body)
    /\ \E e \in TransportFailures : Raises(e)
    /\ UNCHANGED <<fvars, gs, cc, ss>>

\* file.write(chunk) raises.
WriteFails ==
    /\ dl.pc = "streaming"
    /\ dl.received < Len(dl.body)
    /\ Raises("OSError")
    /\ UNCHANGED <<fvars, gs, cc, ss>>

\* The body is over: the with blocks are left and download_source returns.
FinishDownload ==
    /\ dl.pc = "streaming"
    /\ dl.received = Len(dl.body)
    /\ dl' = [dl EXCEPT !.outcomes = Append(@, "ok"), !.pc = "done"]
    /\ UNCHANGED <<fvars, gs, cc, ss>>

NextDownload ==
    \/ StartAttempt
    \/ RequestFails
    \/ ResponseErrorStatus
    \/ ResponseWithoutLength
    \/ ResponseReady
    \/ OpenFails
    \/ OpenFile
    \/ WriteChunk
    \/ StreamFails
    \/ WriteFails
    \/ FinishDownload

SpecDownload == InitDownload /\ [][NextDownload]_vars

(* ---------------------------------------------------------------------- *)
(* Properties of download_source                                           *)
(* ---------------------------------------------------------------------- *)
TwoTimeouts == <<"TimeoutException", "TimeoutException">>

\* C9: when the first two attempts time out, neither timeout reaches the
\* caller, and when the third attempt then succeeds, download_source returns
\* after exactly three attempts with a destination file as long as the
\* declared content length.
C9_TwoTimeoutsThenSuccess ==
    /\ dl.outcomes \in {SubSeq(TwoTimeouts, 1, 1), TwoTimeouts} =>
          (dl.pc # "failed" /\ dl.exc = "none")
    /\ dl.outcomes = TwoTimeouts \o <<"ok">> =>
          /\ dl.pc = "done"
          /\ dl.attempts = 3
          /\ dl.exc = "none"
          /\ dl.total = <<Len(dl.file)>>

\* Two attempts timed out and the third one wrote a body of two bytes.
C9_Witness ==
    /\ dl.pc = "done"
    /\ dl.outcomes = TwoTimeouts \o <<"ok">>
    /\ Len(dl.file) = 2
    /\ dl.events = <<"attempt", "log", "sleep", "attempt", "log", "sleep", "attempt">>

\* The attempts that ended with an exception the policy names.
RetriedFailures == {"TimeoutException", "NetworkError", "TransportError", "HTTPStatusError"}

\* C10: an attempt is followed by a backoff sleep and another attempt exactly
\* when it fails with a timeout, a network or transport failure or an HTTP
\* error status; any other failure reaches the caller at once, with no sleep
\* and no further attempt.
C10_RetriedExactlyOnTransientFailures ==
    /\ \A i \in 1..Len(dl.outcomes) :
          i < Len(dl.outcomes) => dl.outcomes[i] \in RetriedFailures
    /\ dl.pc = "sleeping" =>
          /\ dl.outcomes[Len(dl.outcomes)] \in RetriedFailures
          /\ dl.exc = "none"
    /\ dl.pc = "failed" =>
          /\ dl.outcomes[Len(dl.outcomes)] \notin RetriedFailures \cup {"ok"}
          /\ dl.exc = dl.outcomes[Len(dl.outcomes)]
          /\ dl.attempts = Len(dl.outcomes)
          /\ dl.delay = 0
          /\ dl.events[Len(dl.events)] = "attempt"
    /\ (dl.outcomes # <<>> /\ dl.outcomes[Len(dl.outcomes)] \in RetriedFailures) =>
          \/ dl.pc = "sleeping"
          \/ dl.attempts > Len(dl.outcomes)

\* A write to the destination fails in the second attempt, after a retried
\* timeout: the error reaches the caller.
C10_Witness ==
    /\ dl.pc = "failed"
    /\ dl.exc = "OSError"
    /\ dl.outcomes = <<"TimeoutException", "OSError">>
    /\ dl.file # <<>>

\* C11: a response that carries no Content-Length does not make
\* download_source fail: no call ends with the TypeError that
\* int(response.headers.get("Content-Length")) raises on a missing header.
C11_NoLengthStillCompletes ==
    ~(dl.pc = "failed" /\ dl.exc = "TypeError")

\* C12: whenever download_source returns, the destination file holds exactly
\* the bytes of the body, in order, whatever the earlier attempts left in it.
C12_FileIsTheBody ==
    dl.pc = "done" => dl.file = dl.body

\* The third attempt succeeds on a file in which an earlier attempt had left
\* the first byte of a body of two bytes.
C12_Witness ==
    /\ dl.pc = "done"
    /\ Len(dl.outcomes) = 3
    /\ Len(dl.body) = 2
    /\ dl.before = SubSeq(dl.body, 1, 1)
    /\ dl.file = dl.body

\* C13: the retry loop is bounded: once MaxAttempts attempts in a row have
\* failed with an HTTP error status, download_source has given up and raised
\* that error to the caller.
C13_RetriesAreExhausted ==
    (/\ Len(dl.outcomes) = MaxAttempts
     /\ \A i \in 1..Len(dl.outcomes) : dl.outcomes[i] = "HTTPStatusError") =>
        /\ dl.pc = "failed"
        /\ dl.exc = "HTTPStatusError"

\* C18: every failure log follows an attempt and is followed by a sleep,
\* every sleep is followed by nothing but the next attempt, every attempt but
\* the first follows a sleep, and the sleep lasts between 3 and 12 seconds
\* whatever the number of the attempt.
C18_LogThenSleepThenAttempt ==
    /\ \A i \in 1..Len(dl.events) :
          /\ dl.events[i] = "log" =>
                /\ i > 1 /\ dl.events[i - 1] = "attempt"
                /\ i < Len(dl.events) /\ dl.events[i + 1] = "sleep"
          /\ dl.events[i] = "sleep" =>
                /\ i > 1 /\ dl.events[i - 1] = "log"
                /\ i < Len(dl.events) => dl.events[i + 1] = "attempt"
          /\ (dl.events[i] = "attempt" /\ i > 1) => dl.events[i - 1] = "sleep"
    /\ Cardinality({i \in 1..Len(dl.events) : dl.events[i] = "sleep"})
          = Cardinality({i \in 1..Len(dl.outcomes) : dl.outcomes[i] \in RetriedFailures})
    /\ dl.pc = "sleeping" <=> dl.delay # 0
    /\ dl.pc = "sleeping" => dl.delay \in 3..12

\* The third failure in a row is followed by the shortest sleep.
C18_Witness ==
    /\ dl.pc = "sleeping"
    /\ Len(dl.outcomes) = 3
    /\ dl.delay = 3
    /\ dl.events = <<"attempt", "log", "sleep", "attempt", "log", "sleep",
                     "attempt", "log", "sleep">>

\* C20: as long as an attempt has not passed the status check and read the
\* content length, the destination file holds what it held when the attempt
\* started; it is emptied only by the open that follows.
C20_OpenedAfterStatusAndLength ==
    /\ dl.pc \in {"call", "request", "response"} => dl.file = dl.before
    /\ dl.total = <<>> => dl.file = dl.before

\* The second attempt gets an HTTP error status: the file still holds the
\* byte the first attempt wrote before its stream broke.
C20_Witness ==
    /\ dl.pc = "sleeping"
    /\ dl.outcomes = <<"TimeoutException", "HTTPStatusError">>
    /\ dl.total = <<>>
    /\ Len(dl.body) = 2
    /\ dl.file = SubSeq(dl.body, 1, 1)

(* ---------------------------------------------------------------------- *)
(* get_animes and get_anime_details                                        *)
(* ---------------------------------------------------------------------- *)
\* anime.slug.slug: one slug per entry, kept as the identifier of the entry.
Slug(anime) == anime.id

\* f"{TWIST_URL}{ANIME_ENDPOINT}"
AnimesUrl == <<"anime">>

\* f"{TWIST_URL}{ANIME_ENDPOINT}/{anime.slug.slug}"
AnimeDetailsUrl(anime) == <<"anime", Slug(anime)>>

\* The URL the operation of the call requests.
RequestedUrl(call) ==
    IF call.op = "get_animes" THEN AnimesUrl ELSE AnimeDetailsUrl(call.anime[1])

\* The service holds a catalog; the caller asks for the list, or for the
\* details of one of its entries.
InitCatalog ==
    /\ fpc = "idle"
    /\ animes = <<>>
    /\ ratio = <<>>
    /\ threshold = 0
    /\ limit = 0
    /\ ranked = <<>>
    /\ result = <<>>
    /\ gs = SourcesIdle
    /\ dl = DownloadIdle
    /\ ss = SelectIdle
    /\ \E c \in Catalogs :
          \/ cc = [pc |-> "call", catalog |-> c, op |-> "get_animes",
                   anime |-> <<>>, requests |-> <<>>, ret |-> <<>>, exc |-> "none"]
          \/ \E i \in 1..Len(c) :
                cc = [pc |-> "call", catalog |-> c, op |-> "get_anime_details",
                      anime |-> <<c[i]>>, requests |-> <<>>, ret |-> <<>>,
                      exc |-> "none"]

\* client.get(url=...) sends the request.
ClientGet ==
    /\ cc.pc = "call"
    /\ cc' = [cc EXCEPT !.requests = Append(@, RequestedUrl(cc)), !.pc = "sent"]
    /\ UNCHANGED <<fvars, gs, dl, ss>>

\* client.get(url=...) raises: the transport failed.
ClientGetFails ==
    /\ cc.pc = "sent"
    /\ cc' = [cc EXCEPT !.exc = "TransportError", !.pc = "raised"]
    /\ UNCHANGED <<fvars, gs, dl, ss>>

\* Mutant of RaiseForStatus: an error status is answered by asking again.
RaiseForStatus_Retried ==
    /\ cc.pc = "sent"
    /\ cc' = [cc EXCEPT !.pc = "call"]
    /\ UNCHANGED <<fvars, gs, dl, ss>>

\* r.raise_for_status() raises: the status is not a success.
RaiseForStatus ==
    /\ cc.pc = "sent"
    /\ cc' = [cc EXCEPT !.exc = "HTTPStatusError", !.pc = "raised"]
    /\ UNCHANGED <<fvars, gs, dl, ss>>

\* r.json() or the parsing of the payload raises.
ParseFails ==
    /\ cc.pc = "sent"
    /\ cc' = [cc EXCEPT !.exc = "ValidationError", !.pc = "raised"]
    /\ UNCHANGED <<fvars, gs, dl, ss>>

\* return parse_obj_as(List[Anime], r.json())
ReturnAnimes ==
    /\ cc.pc = "sent"
    /\ cc.op = "get_animes"
    /\ cc' = [cc EXCEPT !.ret = <<cc.catalog>>, !.pc = "returned"]
    /\ UNCHANGED <<fvars, gs, dl, ss>>

\* return anime_details
ReturnAnimeDetails ==
    /\ cc.pc = "sent"
    /\ cc.op = "get_anime_details"
    /\ \E o \in BOOLEAN :
          cc' = [cc EXCEPT !.ret = <<[slug |-> Slug(cc.anime[1]), ongoing |-> o]>>,
                           !.pc = "returned"]
    /\ UNCHANGED <<fvars, gs, dl, ss>>

NextCatalog ==
    \/ ClientGet
    \/ ClientGetFails
    \/ RaiseForStatus
    \/ ParseFails
    \/ ReturnAnimes
    \/ ReturnAnimeDetails

SpecCatalog == InitCatalog /\ [][NextCatalog]_vars

(* ---------------------------------------------------------------------- *)
(* Properties of get_animes and get_anime_details                          *)
(* ---------------------------------------------------------------------- *)
\* C16: get_animes and get_anime_details send exactly one request, the one
\* for their URL; when the transport fails or the status is an error, the
\* exception reaches the caller with no value returned and no second request.
C16_OneRequestNoRetry ==
    /\ Len(cc.requests) <= 1
    /\ cc.pc \in {"sent", "returned", "raised"} => cc.requests = <<RequestedUrl(cc)>>
    /\ cc.exc # "none" <=> cc.pc = "raised"
    /\ cc.pc = "raised" => cc.ret = <<>>
    /\ cc.pc = "returned" => cc.ret # <<>>

\* The request for the details of the second entry of the catalog is
\* answered with an error status.
C16_Witness ==
    /\ cc.pc = "raised"
    /\ cc.exc = "HTTPStatusError"
    /\ cc.op = "get_anime_details"
    /\ Len(cc.catalog) = 2
    /\ cc.requests = <<AnimeDetailsUrl(cc.catalog[2])>>

(* ---------------------------------------------------------------------- *)
(* select_anime_slug                                                       *)
(* ---------------------------------------------------------------------- *)
\* The catalogs get_animes answers the selector with: entries without an
\* alternate title (the matching on alternate titles is that of
\* filter_animes).
SelectCatalogs == {c \in Catalogs : \A i \in 1..Len(c) : ~HasAltTitle(c[i])}

\* What the user types at the filter question: nothing, or a search string.
FilterTexts == {"", "search"}

\* context.get("filter") is truthy.
HasFilter(context) == DictHas(context, "filter") /\ DictGet(context, "filter") # ""

\* sorted((a for a in animes), key=lambda a: a.title)
SortedByTitle(as) ==
    DictValues(SortedAsc([i \in 1..Len(as) |-> <<as[i].title, as[i]>>]))

\* Mutant of get_choices: the entries are listed in the order they come in.
get_choices_Unsorted(context, as, thr, lim) ==
    IF HasFilter(context) THEN filter_animes(as, thr, lim) ELSE as

\* get_choices(context), for the catalog get_animes() returned and the
\* default threshold and limit; a choice is kept as its value, the entry.
get_choices(context, as, thr, lim) ==
    SortedByTitle(IF HasFilter(context) THEN filter_animes(as, thr, lim) ELSE as)

\* select_anime_slug(slug), with slug None (<<>>) or given; the defaults
\* FUZZY_SEARCH_THRESHOLD and FUZZY_SEARCH_MAX_RESULTS are any values.
InitSelect ==
    /\ fpc = "idle"
    /\ animes = <<>>
    /\ ratio = <<>>
    /\ threshold \in 0..(MaxScore - 1)
    /\ limit \in 0..MaxAnimes
    /\ ranked = <<>>
    /\ result = <<>>
    /\ gs = SourcesIdle
    /\ dl = DownloadIdle
    /\ cc = CatalogIdle
    /\ \E slug \in {<<>>, <<1>>} :
          ss = [pc |-> "call", slug |-> slug, prompts |-> 0, asked |-> <<>>,
                fetches |-> 0, answers |-> <<>>, choices |-> <<>>, ret |-> <<>>,
                exc |-> "none"]

\* return slug
ReturnGivenSlug ==
    /\ ss.pc = "call"
    /\ ss.slug # <<>>
    /\ ss' = [ss EXCEPT !.ret = ss.slug, !.pc = "returned"]
    /\ UNCHANGED <<fvars, gs, dl, cc>>

\* prompt(questions) puts the first question.
StartPrompt ==
    /\ ss.pc = "call"
    /\ ss.slug = <<>>
    /\ ss' = [ss EXCEPT !.prompts = @ + 1,
                        !.asked = Append(@, "filter"),
                        !.pc = "ask_filter"]
    /\ UNCHANGED <<fvars, gs, dl, cc>>

\* The user answers the filter question; a search string comes with the
\* scores fuzz.token_set_ratio gives for it.
AnswerFilter ==
    /\ ss.pc = "ask_filter"
    /\ \E text \in FilterTexts :
          /\ ss' = [ss EXCEPT !.answers = DictSet(@, "filter", text),
                              !.pc = "choices"]
          /\ IF text = "" THEN ratio' = ratio ELSE ratio' \in [Strings -> Scores]
    /\ UNCHANGED <<fpc, animes, threshold, limit, ranked, result, gs, dl, cc>>

\* The filter question yields no answer: the prompt stores none.
SkipFilter ==
    /\ ss.pc = "ask_filter"
    /\ ss' = [ss EXCEPT !.pc = "choices"]
    /\ UNCHANGED <<fvars, gs, dl, cc>>

\* The user interrupts the filter question: the prompt returns {}.
CancelFilter ==
    /\ ss.pc = "ask_filter"
    /\ ss' = [ss EXCEPT !.answers = <<>>, !.pc = "answered"]
    /\ UNCHANGED <<fvars, gs, dl, cc>>

\* The prompt calls get_choices(answers) for the second question.
GetChoices ==
    /\ ss.pc = "choices"
    /\ animes' \in SelectCatalogs
    /\ ss' = [ss EXCEPT !.fetches = @ + 1,
                        !.choices = get_choices(ss.answers, animes', threshold, limit),
                        !.asked = Append(@, "anime"),
                        !.pc = "ask_anime"]
    /\ UNCHANGED <<fpc, ratio, threshold, limit, ranked, result, gs, dl, cc>>

\* get_animes() raises in get_choices: the exception leaves the prompt and
\* select_anime_slug.
GetChoicesFails ==
    /\ ss.pc = "choices"
    /\ \E e \in {"HTTPStatusError", "TransportError"} :
          ss' = [ss EXCEPT !.fetches = @ + 1, !.exc = e, !.pc = "raised"]
    /\ UNCHANGED <<fvars, gs, dl, cc>>

\* The user selects one of the choices.
SelectAnime ==
    /\ ss.pc = "ask_anime"
    /\ \E i \in 1..Len(ss.choices) :
          ss' = [ss EXCEPT !.answers = DictSet(@, "anime", ss.choices[i]),
                           !.pc = "answered"]
    /\ UNCHANGED <<fvars, gs, dl, cc>>

\* The user interrupts the selection (the prompt returns {}), or the
\* question yields no answer (the prompt stores none).
CancelSelection ==
    /\ ss.pc = "ask_anime"
    /\ \E a \in {<<>>, ss.answers} :
          ss' = [ss EXCEPT !.answers = a, !.pc = "answered"]
    /\ UNCHANGED <<fvars, gs, dl, cc>>

\* return answers["anime"].slug.slug
ReturnSelected ==
    /\ ss.pc = "answered"
    /\ DictHas(ss.answers, "anime")
    /\ ss' = [ss EXCEPT !.ret = <<Slug(DictGet(ss.answers, "anime"))>>,
                        !.pc = "returned"]
    /\ UNCHANGED <<fvars, gs, dl, cc>>

\* Mutant of RaiseNoSelection: without a selection the questions are put
\* again.
RaiseNoSelection_AsksAgain ==
    /\ ss.pc = "answered"
    /\ ~DictHas(ss.answers, "anime")
    /\ ss' = [ss EXCEPT !.prompts = @ + 1,
                        !.asked = Append(@, "filter"),
                        !.pc = "ask_filter"]
    /\ UNCHANGED <<fvars, gs, dl, cc>>

\* raise typer.BadParameter("No choice selected.")
RaiseNoSelection ==
    /\ ss.pc = "answered"
    /\ ~DictHas(ss.answers, "anime")
    /\ ss' = [ss EXCEPT !.exc = "BadParameter", !.pc = "raised"]
    /\ UNCHANGED <<fvars, gs, dl, cc>>

NextSelect ==
    \/ ReturnGivenSlug
    \/ StartPrompt
    \/ AnswerFilter
    \/ SkipFilter
    \/ CancelFilter
    \/ GetChoices
    \/ GetChoicesFails
    \/ SelectAnime
    \/ CancelSelection
    \/ ReturnSelected
    \/ RaiseNoSelection

SpecSelect == InitSelect /\ [][NextSelect]_vars

(* ---------------------------------------------------------------------- *)
(* Properties of select_anime_slug                                         *)
(* ---------------------------------------------------------------------- *)
\* The exceptions of get_animes() that leave the prompt before it returns.
UpstreamErrors == {"HTTPStatusError", "TransportError"}

\* C14: in a call without a slug the questions are put once and the choices
\* computed once; once the prompt has returned its answers, the call ends
\* either by returning the slug of the selected entry, when the answers hold
\* a selection, or by raising the no-selection error, when they hold none.
C14_SlugOrNoSelection ==
    /\ ss.prompts <= 1
    /\ ss.fetches <= 1
    /\ ss.asked \in {<<>>, <<"filter">>, <<"filter", "anime">>}
    /\ ss.exc \in UpstreamErrors =>
          /\ ss.pc = "raised"
          /\ ss.asked = <<"filter">>
          /\ ~DictHas(ss.answers, "anime")
    /\ (ss.slug = <<>> /\ ss.pc \in {"returned", "raised"}
            /\ ss.exc \notin UpstreamErrors) =>
          /\ ss.prompts = 1
          /\ IF DictHas(ss.answers, "anime")
             THEN /\ ss.pc = "returned"
                  /\ ss.exc = "none"
                  /\ ss.ret = <<Slug(DictGet(ss.answers, "anime"))>>
                  /\ \E i \in 1..Len(ss.choices) :
                        ss.choices[i] = DictGet(ss.answers, "anime")
             ELSE /\ ss.pc = "raised"
                  /\ ss.exc = "BadParameter"
                  /\ ss.ret = <<>>

\* The user is shown two choices and leaves the selection without an
\* answer: the call ends with the no-selection error.
C14_Witness ==
    /\ ss.pc = "raised"
    /\ ss.exc = "BadParameter"
    /\ ss.asked = <<"filter", "anime">>
    /\ Len(ss.choices) = 2
    /\ DictHas(ss.answers, "filter")

\* The entries the choice list is made from, for the answers of the prompt.
Listed ==
    IF HasFilter(ss.answers) THEN filter_animes(animes, threshold, limit) ELSE animes

\* C15: the choice list holds the whole catalog when the filter is empty or
\* absent, and exactly the entries filter_animes returns for the filter text
\* otherwise; in both cases it is in non-decreasing order of title.
C15_ChoicesFromFilter ==
    ss.pc = "ask_anime" =>
        /\ Len(ss.choices) = Len(Listed)
        /\ \A a \in Anime :
              Cardinality({i \in 1..Len(ss.choices) : ss.choices[i] = a})
                  = Cardinality({i \in 1..Len(Listed) : Listed[i] = a})
        /\ \A i, j \in 1..Len(ss.choices) :
              i < j => ss.choices[i].title <= ss.choices[j].title

\* A search string keeps both entries of the catalog, the better match being
\* the one whose title sorts last: the choice list has them in title order.
C15_Witness ==
    /\ ss.pc = "ask_anime"
    /\ HasFilter(ss.answers)
    /\ Len(ss.choices) = 2
    /\ ss.choices[1].title < ss.choices[2].title
    /\ filter_animes(animes, threshold, limit) = <<ss.choices[2], ss.choices[1]>>

====
